---- MODULE Spec2Model ----
(***************************************************************************)
(* Model of src/index.js: the create-vite style scaffolding CLI.           *)
(*                                                                         *)
(* Strings that the code manipulates character by character (the           *)
(* positional argument, the value typed in the project-name question, the  *)
(* target directory) are sequences of one-character strings.  Identifiers  *)
(* that are only compared (template ids, framework names, question names)  *)
(* are TLA+ strings.  A JavaScript value that may be undefined is a record *)
(* [t |-> "undefined"] or [t |-> <type>, v |-> <value>].                   *)
(***************************************************************************)
EXTENDS Integers, Sequences, FiniteSets, TLC

\* ------------------------------------------------------------------ bounds
MaxLen == 2
MaxContent == 2

\* ------------------------------------------------------ JavaScript values
Undefined == [t |-> "undefined"]
Str(s) == [t |-> "string", v |-> s]

Chars == {"a", " ", "/"}

RECURSIVE SeqsUpTo(_)
SeqsUpTo(n) ==
  IF n = 0 THEN {<<>>}
  ELSE LET shorter == SeqsUpTo(n - 1)
       IN  shorter \cup {Append(s, c) : s \in {x \in shorter : Len(x) = n - 1}, c \in Chars}

Strings == SeqsUpTo(MaxLen)

\* a char-sequence value is truthy when it is defined and not ''
Truthy(x) == x.t # "undefined" /\ x.v # <<>>
\* a template id value is truthy when it is defined and not ''
TruthyId(x) == x.t # "undefined" /\ x.v # ""

\* ------------------------------------------------- formatTargetDir (37-39)
RECURSIVE trimStart(_)
trimStart(s) ==
  IF s # <<>> /\ Head(s) = " " THEN trimStart(Tail(s)) ELSE s

RECURSIVE trimEnd(_)
trimEnd(s) ==
  IF s # <<>> /\ s[Len(s)] = " " THEN trimEnd(SubSeq(s, 1, Len(s) - 1)) ELSE s

trim(s) == trimEnd(trimStart(s))

\* the pattern written /\/$/ : one trailing slash is removed
stripOneSlash(s) ==
  IF s # <<>> /\ s[Len(s)] = "/" THEN SubSeq(s, 1, Len(s) - 1) ELSE s

\* .replace(/\/+$/g, '') : the whole run of trailing slashes is removed
RECURSIVE stripTrailingSlashes(_)
stripTrailingSlashes(s) ==
  IF s # <<>> /\ s[Len(s)] = "/"
  THEN stripTrailingSlashes(SubSeq(s, 1, Len(s) - 1))
  ELSE s

formatTargetDir(x) ==
  IF x.t = "undefined" THEN Undefined ELSE Str(stripTrailingSlashes(trim(x.v)))

defaultTargetDir == <<"v", "i", "t", "e", "-", "p", "r", "o", "j", "e", "c", "t">>

\* ----------------------------------------------------------- catalog (41-92)
FRAMEWORKS == <<
  [name |-> "vue",   variants |-> <<"vue-ts", "vue">>],
  [name |-> "react", variants |-> <<"react-ts", "react-swc-ts", "react", "react-swc">>] >>

Range(s) == {s[i] : i \in DOMAIN s}

RECURSIVE Concat(_)
Concat(ss) == IF ss = <<>> THEN <<>> ELSE Head(ss) \o Concat(Tail(ss))

TEMPLATES == Concat([i \in DOMAIN FRAMEWORKS |-> FRAMEWORKS[i].variants])

TemplatesIncludes(x) == x.t # "undefined" /\ x.v \in Range(TEMPLATES)

\* ------------------------------------------------------------- file trees
\* A tree is a function from paths (sequences of entry names, relative to the
\* template directory or to the destination root) to nodes.
Absent == [k |-> "none"]
Dir == [k |-> "dir"]
File(c) == [k |-> "file", c |-> c]

Contents == 1..MaxContent
Files == {File(c) : c \in Contents}

Parent(p) == SubSeq(p, 1, Len(p) - 1)

WellFormed(t) ==
  \A p \in DOMAIN t :
    (Len(p) > 0 /\ t[p].k # "none") => (Parent(p) \in DOMAIN t => t[Parent(p)].k = "dir")

\* the entries a template directory may hold
TmplAllowed ==
  ( <<"_gitignore">>        :> ({Absent, Dir} \cup Files) ) @@
  ( <<".gitignore">>        :> ({Absent} \cup Files) ) @@
  ( <<"constructor">>       :> {Absent, File(1)} ) @@
  ( <<"src">>               :> {Absent, Dir} ) @@
  ( <<"src", "_gitignore">> :> {Absent, File(1)} ) @@
  ( <<"src", "lib">>        :> {Absent, Dir} )

TmplPaths == DOMAIN TmplAllowed

TemplateTrees ==
  {t \in [TmplPaths -> {Absent, Dir} \cup Files] :
     (\A p \in TmplPaths : t[p] \in TmplAllowed[p]) /\ WellFormed(t)}

\* what may already be on disk at <cwd>/<targetDir>; <<>> is the root itself
DestAllowed ==
  ( <<>>                    :> {Absent, Dir, File(1)} ) @@
  ( <<".gitignore">>        :> {Absent, Dir, File(MaxContent)} ) @@
  ( <<"README">>            :> {Absent, File(1)} ) @@
  ( <<"src">>               :> {Absent, Dir, File(1)} ) @@
  ( <<"src", "_gitignore">> :> {Absent, File(MaxContent)} ) @@
  ( <<"src", "keep">>       :> {Absent, File(1)} )

\* every path the destination may come to hold
DestPaths == DOMAIN DestAllowed \cup {<<"constructor">>, <<"_gitignore">>, <<"src", "lib">>}

DestStates ==
  {[p \in DestPaths |-> IF p \in DOMAIN d THEN d[p] ELSE Absent] :
     d \in {x \in [DOMAIN DestAllowed -> {Absent, Dir} \cup Files] :
              (\A p \in DOMAIN DestAllowed : x[p] \in DestAllowed[p]) /\ WellFormed(x)}}

Children(t, p) ==
  {q[Len(q)] : q \in {x \in DOMAIN t : Len(x) = Len(p) + 1 /\ Parent(x) = p /\ t[x].k # "none"}}

\* the tree and the two destinations of the runs that explore the arguments
SmallTree ==
  [p \in TmplPaths |-> IF p = <<"_gitignore">> THEN File(MaxContent) ELSE Absent]

NoDest == [p \in DestPaths |-> Absent]
OldDest == [p \in DestPaths |-> IF p \in {<<>>} THEN Dir ELSE IF p = <<"README">> THEN File(1) ELSE Absent]

\* ------------------------------------------------------------------ state
VARIABLES
  argv,        \* minimist's result: [positional (argv._[0]), template, help]           (12-15)
  pc,          \* where the run is
  targetDir,   \* let targetDir                                     (106, 119)
  value,       \* the text typed so far in the project-name question
  answer,      \* prompts' previous answer, passed to type/choices functions
  answers,     \* prompts' result so far: [framework, variant]
  asked,       \* the questions shown to the user, in order
  root,        \* const root                                        (164)
  template,    \* let template                                      (169)
  tmpl,        \* the tree at template-<id> of every catalog id
  fs,          \* the tree at <cwd>/<targetDir>
  fs0,         \* fs as it was when the process started
  stack,       \* the directories being copied, innermost first
  written,     \* destination paths on which mkdirSync/copyFileSync succeeded
  out,         \* what was printed, in order
  failedOp,    \* the call whose error is propagating, or "none"
  exitCode     \* the process's exit status, -1 while it runs

vars == <<argv, pc, targetDir, value, answer, answers, asked, root, template,
          tmpl, fs, fs0, stack, written, out, failedOp, exitCode>>

argTargetDir == formatTargetDir(argv.positional)                          \* line 97
argTemplate == argv.template                                      \* line 98

\* --------------------------------------------- the question list (112-148)
\* each question's type: null (skipped) or the kind of prompt
TypeProjectName == IF Truthy(argTargetDir) THEN "null" ELSE "text"
\* asks for the framework whatever --template says
TypeFrameworkAlways == "select"

\* skips the framework question for any --template value, known or not
TypeFrameworkUnchecked == IF TruthyId(argTemplate) THEN "null" ELSE "select"

TypeFramework ==
  IF TruthyId(argTemplate) /\ TemplatesIncludes(argTemplate) THEN "null" ELSE "select"
FrameworkNamed(n) == CHOOSE f \in Range(FRAMEWORKS) : f.name = n
\* asks for the variant also when --template names a variant of a framework
\* that has several
TypeVariantImplied(prev) ==
  IF \/ prev.t = "framework" /\ FrameworkNamed(prev.v).variants # <<>>
     \/ /\ TemplatesIncludes(argTemplate)
        /\ \E f \in Range(FRAMEWORKS) : argTemplate.v \in Range(f.variants) /\ Len(f.variants) > 1
  THEN "select" ELSE "null"

\* (framework) => framework && framework.variants ? 'select' : null, applied to
\* the previous answer, whatever question gave it
TypeVariant(prev) ==
  IF prev.t = "framework" /\ FrameworkNamed(prev.v).variants # <<>> THEN "select" ELSE "null"

\* prompts' loop: the first question from the i-th on whose type is not null
AskFrom(i, prev) ==
  IF i <= 1 /\ TypeProjectName # "null" THEN "projectName"
  ELSE IF i <= 2 /\ TypeFramework # "null" THEN "framework"
  ELSE IF i <= 3 /\ TypeVariant(prev) # "null" THEN "variant"
  ELSE "resolve"

Or(x, y) == IF Truthy(x) THEN x ELSE y

InitWith(a, t, d) ==
  /\ argv = a
  /\ pc = "init"
  /\ targetDir = Undefined
  /\ value = <<>>
  /\ answer = Undefined
  /\ answers = [framework |-> Undefined, variant |-> Undefined]
  /\ asked = <<>>
  /\ root = Undefined
  /\ template = Undefined
  /\ tmpl = t
  /\ fs = d
  /\ fs0 = d
  /\ stack = <<>>
  /\ written = {}
  /\ out = <<>>
  /\ failedOp = "none"
  /\ exitCode = -1

ArgDirs == {Undefined} \cup {Str(s) : s \in Strings}
ArgTemplates == {Undefined, [t |-> "string", v |-> ""], [t |-> "string", v |-> "bogus-name"]}
                  \cup {[t |-> "string", v |-> id] : id \in Range(TEMPLATES)}

\* every command line, over one template tree and two destinations
InitArgs ==
  \E d \in ArgDirs, t \in ArgTemplates, h \in BOOLEAN, dest \in {NoDest, OldDest} :
    InitWith([positional |-> d, template |-> t, help |-> h], SmallTree, dest)

\* one command line, over every template tree and every destination
InitTrees ==
  \E t \in TemplateTrees, dest \in DestStates :
    InitWith([positional |-> Str(<<"a">>), template |-> [t |-> "string", v |-> "vue"], help |-> FALSE],
             t, dest)

Init == InitArgs \/ InitTrees

\* help is printed and the run goes on
StartHelpFallsThrough ==
  /\ pc = "init"
  /\ out' = IF argv.help THEN Append(out, "help") ELSE out
  /\ targetDir' = IF Truthy(formatTargetDir(argv.positional)) THEN formatTargetDir(argv.positional)
                  ELSE Str(defaultTargetDir)
  /\ \E q \in {"projectName", "framework", "resolve"} :
       /\ q = (IF ~Truthy(formatTargetDir(argv.positional)) THEN "projectName"
               ELSE IF ~(TruthyId(argv.template) /\ TemplatesIncludes(argv.template)) THEN "framework"
               ELSE "resolve")
       /\ pc' = q
       /\ asked' = IF q = "resolve" THEN asked ELSE Append(asked, q)
  /\ UNCHANGED <<argv, value, answer, answers, root, template, tmpl, fs, fs0,
                 stack, written, failedOp, exitCode>>

\* ----------------------------------------------------------- init (96-158)
\* lines 96-106 and the start of prompts(): help, or the first question
Start ==
  /\ pc = "init"
  /\ IF argv.help
     THEN /\ out' = Append(out, "help")
          /\ pc' = "returned"
          /\ UNCHANGED <<targetDir, asked>>
     ELSE /\ targetDir' = Or(argTargetDir, Str(defaultTargetDir))
          /\ pc' = AskFrom(1, answer)
          /\ asked' = IF AskFrom(1, answer) = "resolve" THEN asked
                      ELSE Append(asked, AskFrom(1, answer))
          /\ UNCHANGED out
  /\ UNCHANGED <<argv, value, answer, answers, root, template, tmpl, fs, fs0,
                 stack, written, failedOp, exitCode>>

\* onState (118-120), fired by the text prompt whenever its value changes
onState(v) == Or(formatTargetDir(Str(v)), Str(defaultTargetDir))

\* a key pressed in the project-name question
Keystroke(keys) ==
  /\ pc = "projectName"
  /\ \E v \in {Append(value, c) : c \in IF Len(value) < MaxLen THEN keys ELSE {}}
            \cup {SubSeq(value, 1, Len(value) - 1) : x \in IF value # <<>> THEN {1} ELSE {}} :
       /\ value' = v
       /\ targetDir' = onState(v)
  /\ UNCHANGED <<argv, pc, answer, answers, asked, root, template, tmpl, fs, fs0,
                 stack, written, out, failedOp, exitCode>>

\* the prompt's value on submit or abort: value || initial
Settled(v) == IF v # <<>> THEN v ELSE defaultTargetDir

\* asks the next question, or leaves prompts()
Proceed(i, prev) ==
  /\ pc' = AskFrom(i, prev)
  /\ asked' = IF AskFrom(i, prev) = "resolve" THEN asked ELSE Append(asked, AskFrom(i, prev))

\* Enter in the project-name question
SubmitName ==
  /\ pc = "projectName"
  /\ value' = Settled(value)
  /\ targetDir' = onState(Settled(value))
  /\ answer' = [t |-> "text", v |-> Settled(value)]
  /\ Proceed(2, answer')
  /\ UNCHANGED <<argv, answers, root, template, tmpl, fs, fs0, stack, written, out,
                 failedOp, exitCode>>

\* a framework chosen in the framework menu: the answer is the framework object
SelectFramework ==
  /\ pc = "framework"
  /\ \E f \in Range(FRAMEWORKS) :
       /\ answer' = [t |-> "framework", v |-> f.name]
       /\ answers' = [answers EXCEPT !.framework = answer']
       /\ Proceed(3, answer')
  /\ UNCHANGED <<argv, targetDir, value, root, template, tmpl, fs, fs0, stack, written,
                 out, failedOp, exitCode>>

\* a variant chosen in the menu built from the previous answer's variants
SelectVariant ==
  /\ pc = "variant"
  /\ \E v \in Range(FrameworkNamed(answer.v).variants) :
       /\ answer' = [t |-> "string", v |-> v]
       /\ answers' = [answers EXCEPT !.variant = answer']
  /\ pc' = "resolve"
  /\ UNCHANGED <<argv, targetDir, value, asked, root, template, tmpl, fs, fs0, stack,
                 written, out, failedOp, exitCode>>

\* the cancellation is printed and the run goes on to materialize
CancelFallsThrough ==
  /\ pc \in {"projectName", "framework", "variant"}
  /\ IF pc = "projectName"
     THEN value' = Settled(value) /\ targetDir' = onState(Settled(value))
     ELSE UNCHANGED <<value, targetDir>>
  /\ out' = Append(out, "cancelled")
  /\ pc' = "resolve"
  /\ UNCHANGED <<argv, answer, answers, asked, root, template, tmpl, fs, fs0, stack,
                 written, failedOp, exitCode>>

\* the user aborts a question: onCancel throws (150-152), init catches, prints
\* and returns (155-158)
Cancel ==
  /\ pc \in {"projectName", "framework", "variant"}
  /\ IF pc = "projectName"
     THEN value' = Settled(value) /\ targetDir' = onState(Settled(value))
     ELSE UNCHANGED <<value, targetDir>>
  /\ out' = Append(out, "cancelled")
  /\ pc' = "returned"
  /\ UNCHANGED <<argv, answer, answers, asked, root, template, tmpl, fs, fs0, stack,
                 written, failedOp, exitCode>>

\* ----------------------------------------------------- materializer (160-225)
\* argTemplate || variant
OrIdSwapped(x, y) == IF TruthyId(y) THEN y ELSE x

OrId(x, y) == IF TruthyId(x) THEN x ELSE y

\* lines 160-173: root, the template, its directory
Resolve ==
  /\ pc = "resolve"
  /\ root' = [t |-> "path", base |-> "cwd", rel |-> targetDir.v]
  /\ template' = OrId(answers.variant, argTemplate)
  /\ out' = Append(out, "scaffolding")
  /\ pc' = "mkroot"
  /\ UNCHANGED <<argv, targetDir, value, answer, answers, asked, tmpl, fs, fs0, stack,
                 written, failedOp, exitCode>>

\* an error thrown by `op` leaves init() as a rejection
Throw(op) ==
  /\ failedOp' = op
  /\ pc' = "thrown"
  /\ stack' = <<>>

\* an existing root is emptied before the copy
MkRootEmptying ==
  /\ pc = "mkroot"
  /\ fs' = [p \in DOMAIN fs |-> IF p = <<>> THEN Dir ELSE Absent]
  /\ written' = written \cup {<<>>}
  /\ pc' = "readdir"
  /\ UNCHANGED <<failedOp, stack>>
  /\ UNCHANGED <<argv, targetDir, value, answer, answers, asked, root, template, tmpl,
                 fs0, out, exitCode>>

\* lines 206-208
MkRoot ==
  /\ pc = "mkroot"
  /\ IF fs[<<>>].k # "none"
     THEN /\ pc' = "readdir"
          /\ UNCHANGED <<fs, written, failedOp, stack>>
     ELSE \E ok \in BOOLEAN :
            IF ok
            THEN /\ fs' = [fs EXCEPT ![<<>>] = Dir]
                 /\ written' = written \cup {<<>>}
                 /\ pc' = "readdir"
                 /\ UNCHANGED <<failedOp, stack>>
            ELSE /\ Throw("mkdirSync")
                 /\ UNCHANGED <<fs, written>>
  /\ UNCHANGED <<argv, targetDir, value, answer, answers, asked, root, template, tmpl,
                 fs0, out, exitCode>>

\* frames whose loop has no entry left return to their caller
RECURSIVE PopDone(_)
PopDone(st) == IF st # <<>> /\ Head(st).todo = {} THEN PopDone(Tail(st)) ELSE st

Frame(src, dest) == [src |-> src, dest |-> dest, todo |-> Children(tmpl, src)]

\* a template directory exists for the catalog's ids only
TemplateDirExists == template.t # "undefined" /\ template.v \in Range(TEMPLATES)

\* line 210
ReaddirTemplate ==
  /\ pc = "readdir"
  /\ \E ok \in BOOLEAN :
       IF ok /\ TemplateDirExists
       THEN /\ stack' = PopDone(<<Frame(<<>>, <<>>)>>)
            /\ pc' = "copy"
            /\ UNCHANGED failedOp
       ELSE Throw("readdirSync")
  /\ UNCHANGED <<argv, targetDir, value, answer, answers, asked, root, template, tmpl,
                 fs, fs0, written, out, exitCode>>

\* line 175-177, read as renameFiles[file]: the object's own key, or a member
\* every object inherits
ObjectPrototypeKeys == {"constructor", "toString", "valueOf", "hasOwnProperty"}
renameFiles(file) ==
  IF file = "_gitignore" THEN [t |-> "string", v |-> ".gitignore"]
  ELSE IF file \in ObjectPrototypeKeys THEN [t |-> "function"]
  ELSE Undefined

\* no rename table
TargetNameUnrenamed(file) == [t |-> "string", v |-> file]

\* renameFiles[file] ?? file
TargetName(file) == IF renameFiles(file).t = "undefined" THEN [t |-> "string", v |-> file]
                    ELSE renameFiles(file)

IsDirAt(t, p) == p \in DOMAIN t /\ t[p].k = "dir"

\* copy (197-204) and copyDir (188-195) up to its loop: `rest` is the stack the
\* caller's loop continues with
Copy(src, dest, rest) ==
  \E fail \in {"none", "statSync", "mkdirSync", "readdirSync", "copyFileSync"} :
    IF fail = "statSync"
    THEN Throw("statSync") /\ UNCHANGED <<fs, written>>
    ELSE IF tmpl[src].k = "dir"
    THEN /\ fail # "copyFileSync"
         /\ IF fail = "mkdirSync" \/ ~IsDirAt(fs, Parent(dest)) \/ fs[dest].k = "file"
            THEN Throw("mkdirSync") /\ UNCHANGED <<fs, written>>
            ELSE /\ fs' = [fs EXCEPT ![dest] = Dir]
                 /\ written' = written \cup {dest}
                 /\ IF fail = "readdirSync"
                    THEN Throw("readdirSync")
                    ELSE /\ stack' = PopDone(<<Frame(src, dest)>> \o rest)
                         /\ UNCHANGED <<pc, failedOp>>
    ELSE /\ fail \notin {"mkdirSync", "readdirSync"}
         /\ IF fail = "copyFileSync" \/ ~IsDirAt(fs, Parent(dest)) \/ fs[dest].k = "dir"
            THEN Throw("copyFileSync") /\ UNCHANGED <<fs, written>>
            ELSE /\ fs' = [fs EXCEPT ![dest] = tmpl[src]]
                 /\ written' = written \cup {dest}
                 /\ stack' = PopDone(rest)
                 /\ UNCHANGED <<pc, failedOp>>

Rest(file) == <<[Head(stack) EXCEPT !.todo = @ \ {file}]>> \o Tail(stack)

\* one turn of the loop over the template directory (211-213) and write (179-186)
WriteEntry ==
  /\ pc = "copy" /\ stack # <<>> /\ Head(stack).src = <<>>
  /\ \E file \in Head(stack).todo :
       IF TargetName(file).t # "string"
       THEN Throw("path.join") /\ UNCHANGED <<fs, written>>
       ELSE Copy(<<file>>, <<TargetName(file).v>>, Rest(file))
  /\ UNCHANGED <<argv, targetDir, value, answer, answers, asked, root, template, tmpl,
                 fs0, out, exitCode>>

\* one turn of copyDir's loop (190-194)
CopyDirEntry ==
  /\ pc = "copy" /\ stack # <<>> /\ Head(stack).src # <<>>
  /\ \E file \in Head(stack).todo :
       Copy(Append(Head(stack).src, file), Append(Head(stack).dest, file), Rest(file))
  /\ UNCHANGED <<argv, targetDir, value, answer, answers, asked, root, template, tmpl,
                 fs0, out, exitCode>>

\* lines 215-224
Finish ==
  /\ pc = "copy" /\ stack = <<>>
  /\ out' = Append(out, "done")
  /\ pc' = "returned"
  /\ UNCHANGED <<argv, targetDir, value, answer, answers, asked, root, template, tmpl,
                 fs, fs0, stack, written, failedOp, exitCode>>

\* the status with which node ends once init() has settled and nothing set
\* process.exitCode or called process.exit
NaturalExit == 0

\* init() resolved: nothing is left to run
Exit ==
  /\ pc = "returned"
  /\ pc' = "exited"
  /\ exitCode' = NaturalExit
  /\ UNCHANGED <<argv, targetDir, value, answer, answers, asked, root, template, tmpl,
                 fs, fs0, stack, written, out, failedOp>>

\* init() rejected: the handler of line 227-229 prints the error
TopCatch ==
  /\ pc = "thrown"
  /\ out' = Append(out, "error")
  /\ pc' = "exited"
  /\ exitCode' = NaturalExit
  /\ UNCHANGED <<argv, targetDir, value, answer, answers, asked, root, template, tmpl,
                 fs, fs0, stack, written, failedOp>>

Next ==
  \/ Start
  \/ Keystroke(Chars)
  \/ SubmitName
  \/ SelectFramework
  \/ SelectVariant
  \/ Cancel
  \/ Resolve
  \/ MkRoot
  \/ ReaddirTemplate
  \/ WriteEntry
  \/ CopyDirEntry
  \/ Finish
  \/ Exit
  \/ TopCatch

Spec == Init /\ [][Next]_vars

\* ================================================================ properties
Cancelled == "cancelled" \in Range(out)
Materializing == root # Undefined
Done == "done" \in Range(out)
Last(s) == s[Len(s)]

\* C1: once the user has cancelled a question, whatever the command line, no
\* directory has been created and no file copied, and none ever is afterwards.
C1_CancelWritesNothing ==
  Cancelled => (written = {} /\ fs = fs0 /\ ~Materializing /\ pc \in {"returned", "exited"})

C1_Witness ==
  Cancelled /\ pc = "exited" /\ asked = <<"projectName", "framework", "variant">>

\* C2: with --help, whatever else is on the command line, the usage text is
\* printed and init returns: no question is asked and nothing is written.
C2_HelpOnly ==
  argv.help =>
    /\ asked = <<>>
    /\ written = {} /\ fs = fs0 /\ ~Materializing
    /\ pc \in {"init", "returned", "exited"}
    /\ out = (IF pc = "init" THEN <<>> ELSE <<"help">>)

C2_Witness ==
  /\ argv.help /\ pc = "exited" /\ out = <<"help">>
  /\ Truthy(argv.positional) /\ TruthyId(argv.template)

\* C3: with --template a known variant id and no positional argument, the
\* project name is asked, the framework and the variant are not, and the
\* template that is materialized is the flag's value.
C3_ValidTemplateSkipsMenus ==
  (TemplatesIncludes(argv.template) /\ argv.positional = Undefined /\ ~argv.help) =>
    /\ asked = (IF pc = "init" THEN <<>> ELSE <<"projectName">>)
    /\ answers.framework = Undefined /\ answers.variant = Undefined
    /\ Materializing => template = argv.template

C3_Witness ==
  /\ argv.positional = Undefined /\ argv.template.t = "string" /\ argv.template.v = "react-ts"
  /\ pc = "copy" /\ asked = <<"projectName">> /\ template = argv.template

\* C4: with --template not a known variant id, the framework and then the
\* variant are asked, and the template that is materialized is the variant
\* selected in the menu, never the flag's value.
C4_UnknownTemplateAsksMenus ==
  (~TemplatesIncludes(argv.template) /\ Materializing) =>
    /\ Len(asked) >= 2
    /\ SubSeq(asked, Len(asked) - 1, Len(asked)) = <<"framework", "variant">>
    /\ answers.framework.t = "framework" /\ answers.variant.t = "string"
    /\ answers.variant.v \in Range(FrameworkNamed(answers.framework.v).variants)
    /\ template = answers.variant
    /\ template # argv.template

C4_Witness ==
  /\ argv.template.t = "string" /\ argv.template.v = "bogus-name"
  /\ pc = "copy" /\ template.v = "react-swc"

\* r is s without its surrounding white space and then without its trailing
\* slashes: s = spaces, r, slashes, spaces
IsFormatOf(r, s) ==
  /\ Len(r) <= Len(s)
  /\ \E i \in 0..(Len(s) - Len(r)) :
       \E j \in 0..(Len(s) - Len(r) - i) :
         /\ \A n \in 1..i : s[n] = " "
         /\ \A n \in 1..Len(r) : r[n] = s[i + n]
         /\ \A n \in 1..j : s[i + Len(r) + n] = "/"
         /\ \A n \in (i + Len(r) + j + 1)..Len(s) : s[n] = " "
         /\ r # <<>> => (r[1] # " " /\ Last(r) # "/")
         /\ (r # <<>> /\ j = 0) => Last(r) # " "

\* C5: the target directory is the normalized positional argument when that
\* is not empty, else the normalization of the value typed so far in the
\* project-name question (at every keystroke), else 'vite-project'; it is
\* never empty and never ends in '/'; the root is computed from it.
C5_TargetDir ==
  (~argv.help /\ pc # "init") =>
    /\ targetDir.t = "string" /\ targetDir.v # <<>> /\ Last(targetDir.v) # "/"
    /\ IF argv.positional # Undefined /\ ~IsFormatOf(<<>>, argv.positional.v)
       THEN IsFormatOf(targetDir.v, argv.positional.v)
       ELSE IF ~IsFormatOf(<<>>, value)
       THEN IsFormatOf(targetDir.v, value)
       ELSE targetDir.v = defaultTargetDir
    /\ Materializing => root.rel = targetDir.v

C5_Witness ==
  pc = "projectName" /\ value = <<"a", "/">> /\ targetDir.v = <<"a">>

\* where the entry at path p of the template belongs under the root: an
\* immediate '_gitignore' becomes '.gitignore'
Dest(p) == IF p[1] = "_gitignore" THEN <<".gitignore">> \o Tail(p) ELSE p

TmplEntries == {p \in TmplPaths : tmpl[p].k # "none"}
TmplFiles == {p \in TmplPaths : tmpl[p].k = "file"}

FsOps == {"mkdirSync", "readdirSync", "statSync", "copyFileSync"}

\* C7: when a filesystem call of the materialization fails, the error reaches
\* the top level, is printed, and the process ends with a non-zero status.
C7_FailureExitsNonZero ==
  (pc = "exited" /\ failedOp \in FsOps) => ("error" \in Range(out) /\ exitCode # 0)

\* C8: materializing into an existing, non-empty root deletes nothing: what
\* was there and is not the destination of a template entry is unchanged, at
\* every step; and once done, a file that was there at the destination of a
\* template file holds that template file's content.
C8_NothingDeleted ==
  \A d \in DestPaths :
    fs0[d].k # "none" =>
      /\ fs[d].k # "none"
      /\ d \notin {Dest(p) : p \in TmplEntries} => fs[d] = fs0[d]
      /\ (Done /\ fs0[d].k = "file" /\ d \in {Dest(p) : p \in TmplFiles}) =>
            fs[d] \in {tmpl[p] : p \in {x \in TmplFiles : Dest(x) = d}}

C8_Witness ==
  /\ Done
  /\ fs0[<<"README">>] = File(1) /\ fs0[<<"src", "keep">>] = File(1)
  /\ fs0[<<"src", "_gitignore">>] = File(MaxContent) /\ tmpl[<<"src", "_gitignore">>] = File(1)
  /\ fs[<<"README">>] = File(1) /\ fs[<<"src", "keep">>] = File(1)
  /\ fs[<<"src", "_gitignore">>] = File(1)

MultiVariant(id) ==
  \E f \in Range(FRAMEWORKS) : id \in Range(f.variants) /\ Len(f.variants) > 1

\* C9 as stated: with --template a variant id of a framework that has several
\* variants, the variant question is still shown and its answer, not the
\* flag's value, is the template that is materialized.
C9_VariantStillAsked ==
  (TemplatesIncludes(argv.template) /\ MultiVariant(argv.template.v) /\ Materializing) =>
    ("variant" \in Range(asked) /\ template = answers.variant)

\* C9 amended: with such a --template, with or without a positional argument,
\* neither menu is ever shown and the flag's value is the template that is
\* materialized.
C9_VariantNeverAsked ==
  (TemplatesIncludes(argv.template) /\ MultiVariant(argv.template.v)) =>
    /\ "framework" \notin Range(asked) /\ "variant" \notin Range(asked)
    /\ pc \notin {"framework", "variant"}
    /\ Materializing => (answers.variant = Undefined /\ template = argv.template)

C9_Witness ==
  /\ argv.template.t = "string" /\ argv.template.v = "react-swc-ts"
  /\ Truthy(argv.positional)
  /\ pc = "copy" /\ asked = <<>> /\ template.v = "react-swc-ts"

\* C10: in every run that reaches materialization, whatever --template was
\* and whatever was selected, the template whose directory is read is one of
\* the catalog's variant ids.
C10_TemplateInCatalog ==
  Materializing => (template.t = "string" /\ template.v \in Range(TEMPLATES))

C10_Witness ==
  /\ pc = "copy" /\ argv.template.t = "string" /\ argv.template.v = ""
  /\ template.v \in Range(TEMPLATES) /\ Truthy(argv.positional)

====
